---- MODULE Spec2Model ----
(***************************************************************************)
(* The live quiz session engine of QzTimeBot: the in-memory registry of    *)
(* quiz rooms (utils.active_quizzes, utils.quiz_settings), the callback    *)
(* handlers that mutate it (join_quiz, start_quiz, process_answer,         *)
(* handle_question_count, handle_time_limit), the per-room sequencer task  *)
(* (send_quiz_message) and the rate limiter (limit_user_requests).         *)
(*                                                                         *)
(* The handlers run as asyncio tasks on one event loop: the code between   *)
(* two suspension points (await of the transport, asyncio.sleep) is one    *)
(* atomic step, and one action of this module.  Time advances in whole     *)
(* seconds (Tick).                                                         *)
(***************************************************************************)
EXTENDS Integers, Sequences, FiniteSets, TLC

(***************************************************************************)
(* Bounds of the model.                                                    *)
(***************************************************************************)
NumUsers == 2          \* Telegram users 1..NumUsers
NumRooms == 1          \* quiz ids handed out by the inline query handler
MaxCalls == 1          \* callback queries delivered after the first Start that launched a task
MaxTasks == 2          \* Starts of one behaviour that pass every check of start_quiz
MaxRoundCalls == 3     \* the same as MaxCalls, in the behaviours of RoundSpec
PoolSize == 2          \* approved questions the store holds for the topic
NumLate == 1           \* further users, who press Join only after a Start
MaxLateCalls == 2      \* the same as MaxCalls, in the behaviours of LateSpec
NumOtherRooms == 1     \* further quiz ids, handed out in the behaviours of PairSpec
MaxPairCalls == 1      \* the same as MaxCalls, in the behaviours of PairSpec
NumBoardUsers == 3     \* user documents in the store, in the behaviours of BoardSpec
MaxTotalQuiz == 1      \* largest total_quiz of a stored user
MaxTotalAnswers == 1   \* largest total_correct, and largest total_wrong, of a stored user
MaxTotalPoints == 2    \* largest total_points of a stored user

Users   == 1..NumUsers
QuizIds == 1..NumRooms

\* The quiz ids of further inline results of the same topic, and all ids.
OtherQuizIds == (NumRooms + 1)..(NumRooms + NumOtherRooms)
AllQuizIds   == QuizIds \cup OtherQuizIds

\* The users who come to a quiz only once its round runs, and all users.
LateUsers == (NumUsers + 1)..(NumUsers + NumLate)
Everyone  == Users \cup LateUsers

(***************************************************************************)
(* Program constants.                                                      *)
(***************************************************************************)
QUIZ_COUNT_OF_QUESTIONS_LIST == <<1, 2>>   \* config.QUIZ_COUNT_OF_QUESTIONS_LIST
QUIZ_TIME_LIMIT_LIST         == <<2, 1>>   \* config.QUIZ_TIME_LIMIT_LIST
LIMIT_SECONDS      == 2     \* @limit_user_requests(seconds=2) of the five handlers
START_DELAY        == 3     \* asyncio.sleep(3) before the first question
PAUSE_SECONDS      == 2     \* pause_seconds=2 between two questions
NUM_OPTIONS        == 4     \* range(4) in get_options_keyboard
MENU_LIMIT_SECONDS == 1     \* @limit_user_requests(seconds=1) of quiz.start_quiz
MAX_PLAYERS        == 10    \* default max_players of format_top_players
TOP_LIMIT          == 20    \* get_top_users(limit=20) in show_global_leaderboard

Options == 0..(NUM_OPTIONS - 1)

Range(s) == {s[i] : i \in DOMAIN s}

Max(a, b) == IF a >= b THEN a ELSE b

\* Saturation point of the whole seconds elapsed in a window: beyond the
\* largest time limit max(0, time_limit - int(elapsed_time)) is 0 whatever
\* the value.
ElapsedCap ==
    LET S == Range(QUIZ_TIME_LIMIT_LIST)
    IN  (CHOOSE m \in S : \A x \in S : x <= m) + 1

\* The names under which limit_user_requests keys its cooldowns
\* (func.__name__ of the decorated handler).
Handlers ==
    {"join_quiz", "start_quiz", "process_answer",
     "handle_question_count", "handle_time_limit"}

\* The decorated handlers: the five callback handlers of the quiz engine,
\* whose names are their own, and the main menu's "Start Quiz" message
\* handler of plugins/quiz.py, which is a second function named start_quiz.
MenuHandler == "quiz.start_quiz"
Decorated == Handlers \cup {MenuHandler}

\* func.__name__ of a decorated handler: the name in its redis key.
FuncName(h) == IF h = MenuHandler THEN "start_quiz" ELSE h

\* The callback payloads of one quiz id are built by the keyboards of that
\* quiz: quiz_start:topic:creator:quiz_id:..., quiz_join:topic:creator:quiz_id.
\* Every inline query of the model is made by user 1 on the one topic.
PayloadCreator(q) == 1

VARIABLES
    active_quizzes,   \* utils.active_quizzes: <<quiz_id, object>> in insertion order
    objects,          \* the room dicts ever created, by object identity
    quiz_settings,    \* utils.quiz_settings: quiz_id -> settings, NoSettings if absent
    tasks,            \* the send_quiz_message tasks ever created
    cooldown,         \* redis: <<user, handler name>> -> seconds left of the key
    joining,          \* join_quiz handlers suspended on callback.answer: <<user, quiz_id>>
    accepted,         \* answers registered so far: <<object, question id, user>> (observation)
    db_counters,      \* the store: quizzes created by the creator, plays of the topic
    escaped,          \* handlers one of whose runs ended in an exception it did not catch
    all_users,        \* the store: db.get_all_users(), the user documents in its order
    board_shown,      \* what the leaderboard handlers sent last
    stats_log,        \* the store: the calls of db.update_user_stats, in order
    calls             \* callback queries delivered since the first task was created

vars == <<active_quizzes, objects, quiz_settings, tasks, cooldown,
          joining, accepted, db_counters, escaped, all_users, board_shown,
          stats_log, calls>>

\* The variables of the leaderboard plugin.
board == <<all_users, board_shown>>

(***************************************************************************)
(* Room dicts.  A key the code leaves out of the dict is a sentinel here:  *)
(* questions = << >> (every allowed question count is positive) and        *)
(* current_question = NoQuestion.                                          *)
(***************************************************************************)
NoSettings == [question_count |-> 0, time_limit |-> 0]

NoQuestion ==
    [id |-> <<0, 0>>, correct_option |-> 0, elapsed |-> 0, answered_users |-> << >>]

\* One entry of the participants dict of join_quiz.
NewParticipant(u) ==
    [user_id |-> u, total_correct |-> 0, total_wrong |-> 0, total_points |-> 0]

\* A new quiz stored without its creator among the participants.
NewRoomWithoutCreator(creator, qc, tl) ==
    [creator_id       |-> creator,
     question_count   |-> qc,
     time_limit       |-> tl,
     participants     |-> << >>,
     questions        |-> << >>,
     current_question |-> NoQuestion]

\* The dict join_quiz stores for a new quiz.
NewRoom(creator, qc, tl) ==
    [creator_id       |-> creator,
     question_count   |-> qc,
     time_limit       |-> tl,
     participants     |-> <<NewParticipant(creator)>>,
     questions        |-> << >>,
     current_question |-> NoQuestion]

\* user_id in quiz_data["participants"]
ParticipantIds(room) == {room.participants[i].user_id : i \in DOMAIN room.participants}

\* position of a key in the participants dict
PIndex(room, u) == CHOOSE i \in DOMAIN room.participants : room.participants[i].user_id = u

\* sorted(participants.items(), key=total_points, reverse=True) with the
\* ties put in front of the entries they tie with.
RECURSIVE InsertByPointsBeforeTies(_, _)
InsertByPointsBeforeTies(e, sorted) ==
    IF sorted = << >> THEN <<e>>
    ELSE IF Head(sorted).total_points > e.total_points
         THEN <<Head(sorted)>> \o InsertByPointsBeforeTies(e, Tail(sorted))
         ELSE <<e>> \o sorted

\* sorted(participants.items(), key=total_points, reverse=True) is stable:
\* an entry goes behind every entry whose total_points is not below its own.
RECURSIVE InsertByPoints(_, _)
InsertByPoints(e, sorted) ==
    IF sorted = << >> THEN <<e>>
    ELSE IF Head(sorted).total_points >= e.total_points
         THEN <<Head(sorted)>> \o InsertByPoints(e, Tail(sorted))
         ELSE <<e>> \o sorted

RECURSIVE SortedParticipants(_)
SortedParticipants(participants) ==
    IF participants = << >> THEN << >>
    ELSE InsertByPoints(participants[Len(participants)],
                        SortedParticipants(SubSeq(participants, 1, Len(participants) - 1)))

\* format_leaderboard: one line per participant, numbered from 1.
FormatLeaderboard(participants) ==
    LET sorted_participants == SortedParticipants(participants)
    IN  [i \in DOMAIN sorted_participants |->
           [position      |-> i,
            user_id       |-> sorted_participants[i].user_id,
            total_points  |-> sorted_participants[i].total_points,
            total_correct |-> sorted_participants[i].total_correct,
            total_wrong   |-> sorted_participants[i].total_wrong]]

\* format_top_players: the first max_players lines and the count of the rest.
FormatTopPlayers(participants, max_players) ==
    LET sorted_participants == SortedParticipants(participants)
        total_participants == Len(sorted_participants)
        shown == IF max_players < total_participants THEN max_players
                 ELSE total_participants
        top_participants == SubSeq(sorted_participants, 1, shown)
    IN  [lines |-> [i \in DOMAIN top_participants |->
                      [position     |-> i,
                       user_id      |-> top_participants[i].user_id,
                       total_points |-> top_participants[i].total_points]],
         remaining_count |-> total_participants - shown]

\* quiz_id in active_quizzes
InRegistry(q) == \E i \in DOMAIN active_quizzes : active_quizzes[i][1] = q

\* the object active_quizzes[quiz_id] refers to
ObjOf(q) ==
    LET i == CHOOSE i \in DOMAIN active_quizzes : active_quizzes[i][1] = q
    IN  active_quizzes[i][2]

\* active_quizzes[quiz_id]
Room(q) == objects[ObjOf(q)]

\* The store's approved questions of the topic: question k has correct option
\* k % 4 (db.get_questions_by_topic).
PoolQuestion(k) == [qid |-> k, correct_option |-> k % NUM_OPTIONS]

(***************************************************************************)
(* limit_user_requests.                                                    *)
(***************************************************************************)
\* redis_client.get(rate_limit_key) is set
Limited(u, h) == cooldown[<<u, h>>] > 0

\* redis_client.setex(name=rate_limit_key, value=1, time=seconds)
SetLimit(u, h) == [cooldown EXCEPT ![<<u, h>>] = LIMIT_SECONDS]

\* The wrapper's else branch: the call is dropped, the handler is not run.
Dropped(u, h) ==
    /\ Limited(u, h)
    /\ UNCHANGED <<active_quizzes, objects, quiz_settings, tasks,
                   cooldown, joining, accepted, db_counters, escaped, stats_log, board, calls>>

\* Nothing shown yet by the leaderboard handlers.
NoOutput == [kind |-> "none"]

\* The quiz engine after the import of utils.py: no quiz, no redis key.
EngineInit ==
    /\ active_quizzes = << >>
    /\ objects = << >>
    /\ quiz_settings = [q \in AllQuizIds |-> NoSettings]
    /\ tasks = << >>
    /\ cooldown = [k \in Everyone \X Handlers |-> 0]
    /\ joining = {}
    /\ accepted = {}
    /\ db_counters = [quiz_created |-> 0, topic_played |-> 0]
    /\ escaped = {}
    /\ stats_log = << >>
    /\ calls = 0

\* The bot with a store that holds no user yet.
Init ==
    /\ EngineInit
    /\ all_users = << >>
    /\ board_shown = NoOutput

(***************************************************************************)
(* The environment.  Until the first sequencer task is created nothing in  *)
(* the engine depends on the time, and a callback arrives only after the   *)
(* redis keys of the earlier ones have expired.  From then on callbacks    *)
(* arrive at any moment, MaxCalls of them at most.                         *)
(***************************************************************************)
Alive == tasks # << >>

\* A callback can be delivered now, n being the number the environment
\* delivers after the first task.
Arrival(n) ==
    /\ Alive => calls < n
    /\ ~Alive => \A k \in DOMAIN cooldown : cooldown[k] = 0

\* The bookkeeping of a delivered callback.
Arrives == calls' = IF Alive THEN calls + 1 ELSE calls

\* The quiz id has been handed out: its keyboard exists in some chat.
Issued(q) == quiz_settings[q] # NoSettings

(***************************************************************************)
(* search_quiz.get_quiz_keyboard, called for an inline query: a fresh quiz *)
(* id, its initial settings and the first Start button.                    *)
(***************************************************************************)
ShowTopic(q) ==
    /\ ~Issued(q)
    /\ quiz_settings' =
         [quiz_settings EXCEPT ![q] =
            [question_count |-> QUIZ_COUNT_OF_QUESTIONS_LIST[1],
             time_limit     |-> QUIZ_TIME_LIMIT_LIST[1]]]
    /\ UNCHANGED <<active_quizzes, objects, tasks, cooldown, joining, accepted,
                   db_counters, escaped, stats_log, board, calls>>

(***************************************************************************)
(* join_quiz.                                                              *)
(***************************************************************************)
\* What the first segment of join_quiz answers (lines 230-252).
JoinOutcome(u, q, isMember) ==
    IF ~isMember THEN "sponsor_required"
    ELSE IF InRegistry(q) /\ u \in ParticipantIds(Room(q)) THEN "already_joined"
    ELSE "join_success"

\* join_quiz up to its await of callback.answer(success_message), lines
\* 215-252.
JoinQuizBegins(u, q, isMember) ==
    /\ Arrives
    /\ ~Limited(u, "join_quiz")
    /\ cooldown' = SetLimit(u, "join_quiz")
    /\ joining' =
         IF JoinOutcome(u, q, isMember) = "join_success"
         THEN joining \cup {<<u, q>>} ELSE joining
    /\ UNCHANGED <<active_quizzes, objects, quiz_settings, tasks, accepted, db_counters,
                   escaped, stats_log, board>>

\* The join button of a keyboard that get_quiz_keyboard built in this run of
\* the bot is pressed.
JoinCall(u, q, isMember) ==
    /\ Issued(q)
    /\ JoinQuizBegins(u, q, isMember)

\* The join button of a message an earlier run of the bot sent is pressed:
\* quiz_settings, which lives in memory, has no entry for its quiz id.
StaleJoinCall(u, q, isMember) ==
    /\ ~Issued(q)
    /\ JoinQuizBegins(u, q, isMember)

\* The settings of a new room, always the defaults.
JoinSettingsDefaults(q) ==
    [question_count |-> QUIZ_COUNT_OF_QUESTIONS_LIST[1],
     time_limit     |-> QUIZ_TIME_LIMIT_LIST[1]]

\* The settings of a new room (lines 305-314): the entry of quiz_settings
\* when there is one, the first values of the configured lists otherwise.
JoinSettings(q) ==
    IF quiz_settings[q] # NoSettings
    THEN [question_count |-> quiz_settings[q].question_count,
          time_limit     |-> quiz_settings[q].time_limit]
    ELSE [question_count |-> QUIZ_COUNT_OF_QUESTIONS_LIST[1],
          time_limit     |-> QUIZ_TIME_LIMIT_LIST[1]]

\* A join that stores a new participants dict holding the joiner alone.
AddParticipantAlone(room, u) ==
    [room EXCEPT !.participants = <<NewParticipant(u)>>]

\* participants[current_user_id] = {...} (line 342): a dict assignment, which
\* replaces the entry of a key the dict already holds.
AddParticipant(room, u) ==
    IF u \in ParticipantIds(room)
    THEN [room EXCEPT !.participants[PIndex(room, u)] = NewParticipant(u)]
    ELSE [room EXCEPT !.participants = Append(@, NewParticipant(u))]

\* The second segment of join_quiz without the returns of lines 272-285 for
\* a user the room already holds.
JoinResultWithoutRecheck(u, q, dbOk, topicOk) ==
    IF ~dbOk THEN "error_logged"
    ELSE IF InRegistry(q) THEN "added"
    ELSE IF ~topicOk THEN "topic_not_found"
    ELSE "created"

\* The second segment of join_quiz without the return of lines 297-300 for
\* a topic that is not found.
JoinResultAnyTopic(u, q, dbOk, topicOk) ==
    IF ~dbOk THEN "error_logged"
    ELSE IF InRegistry(q)
    THEN IF u = PayloadCreator(q) THEN "creator_refreshed"
         ELSE IF u \in ParticipantIds(Room(q)) THEN "refreshed"
         ELSE "added"
    ELSE "created"

\* The second segment of join_quiz without the look at the registry of
\* line 268: the handler builds the room whatever the registry holds.
JoinResultAlwaysCreates(u, q, dbOk, topicOk) ==
    IF ~dbOk THEN "error_logged"
    ELSE IF ~topicOk THEN "topic_not_found"
    ELSE "created"

\* What the second segment of join_quiz does (lines 254-347), in the code's
\* order.  dbOk: db.create_user returns; topicOk: get_topic_info finds the topic.
JoinResult(u, q, dbOk, topicOk) ==
    IF ~dbOk THEN "error_logged"
    ELSE IF InRegistry(q)
    THEN IF u = PayloadCreator(q) THEN "creator_refreshed"
         ELSE IF u \in ParticipantIds(Room(q)) THEN "refreshed"
         ELSE "added"
    ELSE IF ~topicOk THEN "topic_not_found"
    ELSE "created"

\* join_quiz from db.create_user to its last update_quiz_message
\* (lines 254-353): no suspension point before the writes.
JoinWrite(u, q, dbOk, topicOk) ==
    /\ <<u, q>> \in joining
    /\ joining' = joining \ {<<u, q>>}
    /\ LET result == JoinResult(u, q, dbOk, topicOk)
       IN  IF result = "added"
           THEN /\ objects' = [objects EXCEPT ![ObjOf(q)] = AddParticipant(@, u)]
                /\ UNCHANGED active_quizzes
           ELSE IF result = "created"
           THEN LET created == NewRoom(PayloadCreator(q),
                                       JoinSettings(q).question_count,
                                       JoinSettings(q).time_limit)
                    room == IF u = PayloadCreator(q) THEN created
                            ELSE AddParticipant(created, u)
                IN  /\ objects' = Append(objects, room)
                    /\ active_quizzes' = Append(active_quizzes, <<q, Len(objects) + 1>>)
           ELSE \* logged at line 357, returned at line 279, 285 or 300
                UNCHANGED <<active_quizzes, objects>>
    /\ UNCHANGED <<quiz_settings, tasks, cooldown, accepted, db_counters, escaped, stats_log, board, calls>>

(***************************************************************************)
(* handle_question_count, handle_time_limit and utils.update_quiz_settings.*)
(***************************************************************************)
\* A value no keyboard of the running configuration offers.
InvalidValue == 0

\* The settings handlers without the creator check (lines 371-373, 442-444).
SettingOutcomeAnyUser(u, q, v, allowed) ==
    IF v \notin Range(allowed) THEN "invalid_value"
    ELSE "selected"

\* The settings handlers without the validation (lines 376-378, 447-449).
SettingOutcomeAnyValue(u, q, v, allowed) ==
    IF u # PayloadCreator(q) THEN "only_creator_can_change"
    ELSE "selected"

\* What handle_question_count and handle_time_limit decide
\* (lines 371-378, 442-449).
SettingOutcome(u, q, v, allowed) ==
    IF u # PayloadCreator(q) THEN "only_creator_can_change"
    ELSE IF v \notin Range(allowed) THEN "invalid_value"
    ELSE "selected"

\* handle_question_count, lines 357-412.  topicOk: db.get_topic_by_id finds
\* the topic; when it does not, get_topic_name raises and update_quiz_settings
\* stops before its own writes.
HandleQuestionCountTry(u, q, v, topicOk) ==
    /\ Arrives
    /\ Issued(q)
    /\ ~Limited(u, "handle_question_count")
    /\ cooldown' = SetLimit(u, "handle_question_count")
    /\ IF SettingOutcome(u, q, v, QUIZ_COUNT_OF_QUESTIONS_LIST) # "selected"
       THEN UNCHANGED <<objects, quiz_settings>>
       ELSE LET current_time_limit == quiz_settings[q].time_limit
            IN  /\ quiz_settings' =
                     [quiz_settings EXCEPT ![q] =
                        [question_count |-> v, time_limit |-> current_time_limit]]
                /\ objects' =
                     IF InRegistry(q)
                     THEN [objects EXCEPT ![ObjOf(q)] =
                             [@ EXCEPT !.question_count = v,
                                       !.time_limit =
                                          IF topicOk THEN current_time_limit ELSE @]]
                     ELSE objects
    /\ UNCHANGED <<active_quizzes, tasks, joining, accepted, db_counters>>

\* handle_time_limit, lines 428-483.
HandleTimeLimitTry(u, q, v, topicOk) ==
    /\ Arrives
    /\ Issued(q)
    /\ ~Limited(u, "handle_time_limit")
    /\ cooldown' = SetLimit(u, "handle_time_limit")
    /\ IF SettingOutcome(u, q, v, QUIZ_TIME_LIMIT_LIST) # "selected"
       THEN UNCHANGED <<objects, quiz_settings>>
       ELSE LET current_question_count == quiz_settings[q].question_count
            IN  /\ quiz_settings' =
                     [quiz_settings EXCEPT ![q] =
                        [question_count |-> current_question_count, time_limit |-> v]]
                /\ objects' =
                     IF InRegistry(q)
                     THEN [objects EXCEPT ![ObjOf(q)] =
                             [@ EXCEPT !.time_limit = v,
                                       !.question_count =
                                          IF topicOk THEN current_question_count ELSE @]]
                     ELSE objects
    /\ UNCHANGED <<active_quizzes, tasks, joining, accepted, db_counters>>

\* A run of handle_question_count that leaves the handler normally: nothing
\* raised, or the reply of the except block (lines 414-416) was delivered.
HandleQuestionCount(u, q, v, topicOk) ==
    /\ HandleQuestionCountTry(u, q, v, topicOk)
    /\ UNCHANGED <<escaped, stats_log, board>>

HandleTimeLimit(u, q, v, topicOk) ==
    /\ HandleTimeLimitTry(u, q, v, topicOk)
    /\ UNCHANGED <<escaped, stats_log, board>>

\* The transport fails: the callback.answer that ends the try block raises,
\* and so does the callback.answer of the except block (line 416, line 487),
\* which nothing encloses.
HandleQuestionCountEscapes(u, q, v, topicOk) ==
    /\ HandleQuestionCountTry(u, q, v, topicOk)
    /\ escaped' = escaped \cup {"handle_question_count"}
    /\ UNCHANGED <<stats_log, board>>

HandleTimeLimitEscapes(u, q, v, topicOk) ==
    /\ HandleTimeLimitTry(u, q, v, topicOk)
    /\ escaped' = escaped \cup {"handle_time_limit"}
    /\ UNCHANGED <<stats_log, board>>

\* quiz.start_quiz (plugins/quiz.py, lines 179-208) behind its wrapper: the
\* key of the function name is set for one second and the topics keyboard is
\* sent; the handler writes nothing of the quiz engine.
MenuStartQuiz(u) ==
    /\ Arrives
    /\ ~Limited(u, FuncName(MenuHandler))
    /\ cooldown' = [cooldown EXCEPT ![<<u, FuncName(MenuHandler)>>] = MENU_LIMIT_SECONDS]
    /\ UNCHANGED <<active_quizzes, objects, quiz_settings, tasks, joining, accepted,
                   db_counters, escaped, stats_log, board>>

\* The wrapper of limit_user_requests drops the call: the handler is not run.
RateLimited(u, h) ==
    /\ Alive
    /\ Dropped(u, h)

(***************************************************************************)
(* start_quiz (plugins/start_quiz.py).                                     *)
(***************************************************************************)
\* The <<question_count, time_limit>> pairs a Start button of the quiz may
\* carry: the first keyboard (search_quiz.get_quiz_keyboard, the defaults),
\* the keyboard of the last settings change (create_quiz_keyboard_for_existing,
\* the pair in quiz_settings) and the keyboard of the last join
\* (join_quiz.get_quiz_keyboard, the pair on the room).  A quiz message may be
\* posted in several chats and an edit may fail, so each of them can be the
\* one the user presses.
StartPayloads(q) ==
    IF ~Issued(q) THEN {}
    ELSE {<<QUIZ_COUNT_OF_QUESTIONS_LIST[1], QUIZ_TIME_LIMIT_LIST[1]>>,
          <<quiz_settings[q].question_count, quiz_settings[q].time_limit>>}
         \cup (IF InRegistry(q)
               THEN {<<Room(q).question_count, Room(q).time_limit>>} ELSE {})

\* Lines 233-237: a value outside the configured list falls back to its head.
Clamp(v, allowed) == IF v \in Range(allowed) THEN v ELSE allowed[1]

\* A selection that draws every question anew from the whole pool.
SelectionsWithRepetition(k, n) ==
    LET m == IF n <= k THEN n ELSE k
    IN  {[i \in 1..m |-> PoolQuestion(s[i])] : s \in [1..m -> 1..k]}

\* random.shuffle(questions); questions[:quiz_question_count] over a pool of
\* k questions: every sequence of n distinct pool questions, of all k of them
\* when the pool is shorter than n (a slice never raises).
Selections(k, n) ==
    LET m == IF n <= k THEN n ELSE k
    IN  {[i \in 1..m |-> PoolQuestion(s[i])] :
            s \in {f \in [1..m -> 1..k] : \A i, j \in 1..m : i # j => f[i] # f[j]}}

\* start_quiz without the creator check of lines 243-246.
StartOutcomeAnyUser(u, q, qc, k) ==
    IF ~InRegistry(q) THEN "quiz_not_found"
    ELSE IF Len(Room(q).participants) < 2 THEN "need_players"
    ELSE IF k = -1 THEN "error_general"
    ELSE IF k < qc THEN "not_enough_questions"
    ELSE "started"

\* start_quiz without the participants check of lines 254-257.
StartOutcomeAnyPlayers(u, q, qc, k) ==
    IF u # PayloadCreator(q) THEN "creator_only"
    ELSE IF ~InRegistry(q) THEN "quiz_not_found"
    ELSE IF k = -1 THEN "error_general"
    ELSE IF k < qc THEN "not_enough_questions"
    ELSE "started"

\* start_quiz without the pool check of lines 271-278.
StartOutcomeAnyPool(u, q, qc, k) ==
    IF u # PayloadCreator(q) THEN "creator_only"
    ELSE IF ~InRegistry(q) THEN "quiz_not_found"
    ELSE IF Len(Room(q).participants) < 2 THEN "need_players"
    ELSE IF k = -1 THEN "error_general"
    ELSE "started"

\* What start_quiz decides (lines 242-278).  k: the number of questions
\* db.get_questions_by_topic returns, -1 when its status is "error".
StartOutcome(u, q, qc, k) ==
    IF u # PayloadCreator(q) THEN "creator_only"
    ELSE IF ~InRegistry(q) THEN "quiz_not_found"
    ELSE IF Len(Room(q).participants) < 2 THEN "need_players"
    ELSE IF k = -1 THEN "error_general"
    ELSE IF k < qc THEN "not_enough_questions"
    ELSE "started"

\* A send_quiz_message task as asyncio.create_task leaves it: not yet run.
NewTask(o) ==
    [obj |-> o, quiz_id |-> 0, questions_list |-> << >>, quiz_time_limit |-> 0,
     pc |-> "created", number |-> 0, timer |-> 0, rendered |-> << >>]

\* What the store does with db.update_quiz_created and db.update_topic_played
\* (lines 289-290): both return, the first raises, the second raises.
StoreOutcomes == {"ok", "created_raises", "played_raises"}

\* The store calls of lines 289-290 with the second one left out.
CountedCreatedOnly(store) ==
    [quiz_created |-> db_counters.quiz_created + (IF store = "created_raises" THEN 0 ELSE 1),
     topic_played |-> db_counters.topic_played]

\* The counters after lines 289-290.
Counted(store) ==
    [quiz_created |-> db_counters.quiz_created + (IF store = "created_raises" THEN 0 ELSE 1),
     topic_played |-> db_counters.topic_played + (IF store = "ok" THEN 1 ELSE 0)]

\* start_quiz, lines 211-292.  pq, pt: the settings the pressed Start button
\* carries.  store: what the two counter updates do; when one raises, line 292
\* is not reached.  MaxTasks bounds the Starts that reach the counters.
StartQuiz(u, q, pq, pt, k, store) ==
    /\ Arrives
    /\ db_counters.quiz_created < MaxTasks
    /\ <<pq, pt>> \in StartPayloads(q)
    /\ ~Limited(u, "start_quiz")
    /\ cooldown' = SetLimit(u, "start_quiz")
    /\ LET quiz_question_count == Clamp(pq, QUIZ_COUNT_OF_QUESTIONS_LIST)
           quiz_time_limit == Clamp(pt, QUIZ_TIME_LIMIT_LIST)
       IN  IF StartOutcome(u, q, quiz_question_count, k) # "started"
           THEN UNCHANGED <<objects, tasks, db_counters>>
           ELSE /\ \E selected_questions \in Selections(k, quiz_question_count) :
                     objects' =
                       [objects EXCEPT ![ObjOf(q)] =
                          [@ EXCEPT !.questions = selected_questions,
                                    !.question_count = quiz_question_count,
                                    !.time_limit = quiz_time_limit]]
                /\ db_counters' = Counted(store)
                /\ tasks' = IF store = "ok" THEN Append(tasks, NewTask(ObjOf(q)))
                            ELSE tasks
    /\ UNCHANGED <<active_quizzes, quiz_settings, joining, accepted, escaped, stats_log, board>>

(***************************************************************************)
(* process_answer (plugins/start_quiz.py).                                 *)
(***************************************************************************)
\* The checks of process_answer with the participant check moved in front
\* of the checks of the question.
AnswerOutcomeParticipantFirst(u, q, n) ==
    IF ~InRegistry(q) THEN "quiz_not_found_alert"
    ELSE IF u \notin ParticipantIds(Room(q)) THEN "not_a_participant"
    ELSE IF Room(q).current_question = NoQuestion THEN "quiz_not_active"
    ELSE IF Room(q).current_question.id # <<q, n>> THEN "question_not_active"
    ELSE IF u \in Range(Room(q).current_question.answered_users) THEN "already_answered"
    ELSE "accepted"

\* The checks of lines 317-342, in the code's order.  The callback data is
\* quiz_answer:<quiz_id>:<quiz_id>_<n>:<option>.
AnswerOutcome(u, q, n) ==
    IF ~InRegistry(q) THEN "quiz_not_found_alert"
    ELSE IF Room(q).current_question = NoQuestion THEN "quiz_not_active"
    ELSE IF Room(q).current_question.id # <<q, n>> THEN "question_not_active"
    ELSE IF u \notin ParticipantIds(Room(q)) THEN "not_a_participant"
    ELSE IF u \in Range(Room(q).current_question.answered_users) THEN "already_answered"
    ELSE "accepted"

\* Lines 351-362: points of a correct answer.
Points(time_limit, elapsed) == 1 + Max(0, time_limit - elapsed)

\* Lines 344-367 on the room dict.
RegisterAnswer(room, u, selected_option) ==
    LET cq == room.current_question
        is_correct == selected_option = cq.correct_option
        points == Points(room.time_limit, cq.elapsed)
        i == PIndex(room, u)
    IN  [room EXCEPT
           !.current_question.answered_users = Append(@, u),
           !.participants[i] =
              IF is_correct
              THEN [@ EXCEPT !.total_correct = @ + 1, !.total_points = @ + points]
              ELSE [@ EXCEPT !.total_wrong = @ + 1]]

\* How many times the answer of u to question id of object o was registered.
TimesAccepted(o, id, u) ==
    Cardinality({a \in accepted : a[1] = o /\ a[2] = id /\ a[3] = u})

ProcessAnswerTry(u, q, n, selected_option) ==
    /\ Arrives
    /\ Issued(q)
    /\ ~Limited(u, "process_answer")
    /\ cooldown' = SetLimit(u, "process_answer")
    /\ IF AnswerOutcome(u, q, n) # "accepted"
       THEN UNCHANGED <<objects, accepted>>
       ELSE /\ objects' = [objects EXCEPT ![ObjOf(q)] = RegisterAnswer(@, u, selected_option)]
            /\ accepted' = accepted \cup
                 {<<ObjOf(q), <<q, n>>, u, TimesAccepted(ObjOf(q), <<q, n>>, u) + 1>>}
    /\ UNCHANGED <<active_quizzes, quiz_settings, tasks, joining, db_counters>>

\* A run of process_answer that leaves the handler normally.
ProcessAnswer(u, q, n, selected_option) ==
    /\ ProcessAnswerTry(u, q, n, selected_option)
    /\ UNCHANGED <<escaped, stats_log, board>>

\* The transport fails: the callback.answer of the try block raises, after
\* the writes of lines 345-367 when the answer was registered, and so does
\* the callback.answer of the except block (line 372).
ProcessAnswerEscapes(u, q, n, selected_option) ==
    /\ ProcessAnswerTry(u, q, n, selected_option)
    /\ escaped' = escaped \cup {"process_answer"}
    /\ UNCHANGED <<stats_log, board>>

(***************************************************************************)
(* send_quiz_message: the sequencer task of one Start.  Its suspension     *)
(* points are update_quiz_message (the transport) and asyncio.sleep.       *)
(*   raised: the transport raised something other than TelegramBadRequest, *)
(*   which update_quiz_message does not catch; the handler at line 455     *)
(*   logs it and the task ends without reaching cleanup_quiz_data.         *)
(***************************************************************************)
\* quiz_data == other for two room dicts: the participants dicts compare
\* without order; two open questions of different dicts never carry the same
\* start_time timestamp.
DictEq(a, b) ==
    /\ a.creator_id = b.creator_id
    /\ a.question_count = b.question_count
    /\ a.time_limit = b.time_limit
    /\ Range(a.participants) = Range(b.participants)
    /\ a.questions = b.questions
    /\ a.current_question = NoQuestion
    /\ b.current_question = NoQuestion

\* list(active_quizzes.keys())[list(active_quizzes.values()).index(quiz_data)]
\* (line 385): the key of the first value that is, or equals, quiz_data;
\* 0 when index raises ValueError.
KeyOfValue(o) ==
    LET I == {i \in DOMAIN active_quizzes :
                \/ active_quizzes[i][2] = o
                \/ DictEq(objects[active_quizzes[i][2]], objects[o])}
    IN  IF I = {} THEN 0
        ELSE active_quizzes[CHOOSE i \in I : \A j \in I : i <= j][1]

\* A task that has returned: nothing reads its locals any more.
Ended(task, how) == [NewTask(task.obj) EXCEPT !.pc = how]

\* A room dict nothing refers to (neither active_quizzes nor a running task)
\* is garbage: the interpreter frees it.
Collected == NewRoom(0, 0, 0)

Referenced(o, reg, tsk) ==
    \/ \E i \in DOMAIN reg : reg[i][2] = o
    \/ \E t \in DOMAIN tsk : tsk[t].obj = o /\ tsk[t].pc \notin {"done", "failed"}

\* The state after task t has made a step that leaves it as task, the room
\* dicts as objs and the registry as reg.
SeqResultLogged(t, task, objs, reg, log) ==
    LET tsk == [tasks EXCEPT ![t] = task]
    IN  /\ tasks' = tsk
        /\ stats_log' = log
        /\ active_quizzes' = reg
        /\ objects' = [o \in DOMAIN objs |->
                         IF Referenced(o, reg, tsk) THEN objs[o] ELSE Collected]
        /\ accepted' = {a \in accepted : Referenced(a[1], reg, tsk)}
        /\ UNCHANGED <<quiz_settings, cooldown, joining, db_counters, escaped, board, calls>>

\* A step of the task that calls no db.update_user_stats.
SeqResult(t, task, objs, reg) == SeqResultLogged(t, task, objs, reg, stats_log)

\* Lines 382-395, up to the await of the "quiz started" edit.
SeqBegin(t) ==
    /\ t \in DOMAIN tasks
    /\ tasks[t].pc = "created"
    /\ LET o == tasks[t].obj
           quiz_id == KeyOfValue(o)
       IN  SeqResult(t,
             IF quiz_id = 0
             THEN Ended(tasks[t], "failed")
             ELSE [tasks[t] EXCEPT
                     !.quiz_id = quiz_id,
                     !.questions_list = objects[o].questions,
                     !.quiz_time_limit = objects[o].time_limit,
                     !.pc = "announcing"],
             objects, active_quizzes)

\* The edit returned: asyncio.sleep(3) (line 398).
SeqAnnounced(t, raised) ==
    /\ t \in DOMAIN tasks
    /\ tasks[t].pc = "announcing"
    /\ SeqResult(t,
         IF raised THEN Ended(tasks[t], "failed")
         ELSE [tasks[t] EXCEPT !.pc = "sleeping", !.timer = START_DELAY],
         objects, active_quizzes)

\* quiz_data["current_question"] = {...} of show_question (lines 530-535).
OpenQuestion(room, quiz_id, question_number, question) ==
    [room EXCEPT !.current_question =
        [id             |-> <<quiz_id, question_number>>,
         correct_option |-> question.correct_option,
         elapsed        |-> 0,
         answered_users |-> << >>]]

\* A sleep before a question is over: the next pass of the loop of line 401
\* up to the await at the end of show_question.
SeqOpen(t) ==
    /\ t \in DOMAIN tasks
    /\ tasks[t].pc = "sleeping"
    /\ tasks[t].timer = 0
    /\ LET question_number == tasks[t].number + 1
           question == tasks[t].questions_list[question_number]
       IN  SeqResult(t,
             [tasks[t] EXCEPT !.number = question_number, !.pc = "showing"],
             [objects EXCEPT ![tasks[t].obj] =
                 OpenQuestion(@, tasks[t].quiz_id, question_number, question)],
             active_quizzes)

\* The question is on screen: asyncio.sleep(quiz_time_limit) (line 423).
SeqShown(t, raised) ==
    /\ t \in DOMAIN tasks
    /\ tasks[t].pc = "showing"
    /\ SeqResult(t,
         IF raised THEN Ended(tasks[t], "failed")
         ELSE [tasks[t] EXCEPT !.pc = "window", !.timer = tasks[t].quiz_time_limit],
         objects, active_quizzes)

\* Lines 425-429: a wrong answer for every participant who did not answer.
ScoreUnanswered(room) ==
    [room EXCEPT !.participants =
        [i \in DOMAIN room.participants |->
            IF room.participants[i].user_id
                 \notin Range(room.current_question.answered_users)
            THEN [room.participants[i] EXCEPT !.total_wrong = @ + 1]
            ELSE room.participants[i]]]

\* The window sleep is over: lines 425-437 up to the await inside
\* show_intermediate_results, or lines 425-445 up to the await inside
\* show_final_results after the last question.  A room dict whose
\* current_question another task's cleanup has deleted raises KeyError.
SeqClose(t) ==
    /\ t \in DOMAIN tasks
    /\ tasks[t].pc = "window"
    /\ tasks[t].timer = 0
    /\ LET o == tasks[t].obj
       IN  IF objects[o].current_question = NoQuestion
           THEN SeqResult(t, Ended(tasks[t], "failed"), objects, active_quizzes)
           ELSE SeqResult(t,
                  IF tasks[t].number < Len(tasks[t].questions_list)
                  THEN [tasks[t] EXCEPT !.pc = "standings"]
                  ELSE [tasks[t] EXCEPT
                          !.pc = "results",
                          !.rendered = FormatLeaderboard(ScoreUnanswered(objects[o]).participants)],
                  [objects EXCEPT ![o] = ScoreUnanswered(@)],
                  active_quizzes)

\* The intermediate standings are on screen: asyncio.sleep(pause_seconds).
SeqStandings(t, raised) ==
    /\ t \in DOMAIN tasks
    /\ tasks[t].pc = "standings"
    /\ SeqResult(t,
         IF raised THEN Ended(tasks[t], "failed")
         ELSE [tasks[t] EXCEPT !.pc = "sleeping", !.timer = PAUSE_SECONDS],
         objects, active_quizzes)

\* del active_quizzes[quiz_id]
Unregister(reg, quiz_id) == SelectSeq(reg, LAMBDA e : e[1] # quiz_id)

\* update_users_statistics that stops at the first update the store
\* answers with a status other than success.
RECURSIVE UpdateUsersStatisticsUntilFailure(_, _, _)
UpdateUsersStatisticsUntilFailure(o, participants, failing) ==
    IF participants = << >> THEN << >>
    ELSE LET user_data == Head(participants)
             call == [obj           |-> o,
                      user_id       |-> user_data.user_id,
                      correct_count |-> user_data.total_correct,
                      wrong_count   |-> user_data.total_wrong,
                      points        |-> user_data.total_points,
                      status        |-> IF user_data.user_id \in failing
                                        THEN "error" ELSE "success"]
         IN  IF user_data.user_id \in failing THEN <<call>>
             ELSE <<call>> \o UpdateUsersStatisticsUntilFailure(o, Tail(participants), failing)

\* update_users_statistics (lines 584-601): one db.update_user_stats per
\* participant of the room dict o, in the dict's order; the store answers
\* the users of failing with a status other than success, which is logged.
UpdateUsersStatistics(o, participants, failing) ==
    [i \in DOMAIN participants |->
       [obj           |-> o,
        user_id       |-> participants[i].user_id,
        correct_count |-> participants[i].total_correct,
        wrong_count   |-> participants[i].total_wrong,
        points        |-> participants[i].total_points,
        status        |-> IF participants[i].user_id \in failing
                          THEN "error" ELSE "success"]]

\* The final results are on screen: update_users_statistics and
\* cleanup_quiz_data (lines 447-453), which do not suspend.
\* raised: the edit of show_final_results raised; statsOk: every call of
\* db.update_user_stats returns (whatever its status), otherwise one of
\* them raises after the calls for the participants in front of it.
SeqFinish(t, raised, statsOk) ==
    /\ t \in DOMAIN tasks
    /\ tasks[t].pc = "results"
    /\ LET o == tasks[t].obj
           participants == objects[o].participants
       IN  IF raised
           THEN SeqResult(t, Ended(tasks[t], "failed"), objects, active_quizzes)
           ELSE IF ~statsOk
           THEN \E i \in DOMAIN participants :
                   SeqResultLogged(t, Ended(tasks[t], "failed"), objects, active_quizzes,
                      stats_log \o
                         SubSeq(UpdateUsersStatistics(o, participants, {}), 1, i - 1))
           ELSE \E failing \in SUBSET ParticipantIds(objects[o]) :
                   SeqResultLogged(t, Ended(tasks[t], "done"),
                      [objects EXCEPT ![o] = [@ EXCEPT !.current_question = NoQuestion]],
                      Unregister(active_quizzes, tasks[t].quiz_id),
                      stats_log \o UpdateUsersStatistics(o, participants, failing))

(***************************************************************************)
(* One second passes: the redis keys age, the sleeps run down, the open    *)
(* questions grow older (datetime.now() - start_time).                     *)
(***************************************************************************)
\* The task can run now: it is not asleep and not waiting for a later second.
Ready(t) ==
    \/ tasks[t].pc \in {"created", "announcing", "showing", "standings", "results"}
    \/ tasks[t].pc \in {"sleeping", "window"} /\ tasks[t].timer = 0

Tick ==
    /\ \A t \in DOMAIN tasks : ~Ready(t)
    /\ cooldown' = [k \in DOMAIN cooldown |-> Max(0, cooldown[k] - 1)]
    /\ tasks' = [t \in DOMAIN tasks |-> [tasks[t] EXCEPT !.timer = Max(0, @ - 1)]]
    /\ objects' =
         [o \in DOMAIN objects |->
            IF objects[o].current_question = NoQuestion THEN objects[o]
            ELSE [objects[o] EXCEPT !.current_question.elapsed =
                     IF @ < ElapsedCap THEN @ + 1 ELSE @]]
    /\ UNCHANGED <<active_quizzes, quiz_settings, joining, accepted, db_counters, escaped, stats_log, board,
                   calls>>

MaxQuestions ==
    LET S == Range(QUIZ_COUNT_OF_QUESTIONS_LIST)
    IN  CHOOSE m \in S : \A x \in S : x <= m

\* One step of the sequencer task t.
SeqStep(t) ==
    \/ SeqBegin(t)
    \/ \E raised \in BOOLEAN : SeqAnnounced(t, raised)
    \/ SeqOpen(t)
    \/ \E raised \in BOOLEAN : SeqShown(t, raised)
    \/ SeqClose(t)
    \/ \E raised \in BOOLEAN : SeqStandings(t, raised)
    \/ \E raised, statsOk \in BOOLEAN : SeqFinish(t, raised, statsOk)

(***************************************************************************)
(* plugins/leaderboard.py.  Scores are kept in tenths: round(score, 1) has  *)
(* one decimal.                                                            *)
(***************************************************************************)
\* A user document without the "stats" key.
NoStats == [total_quiz |-> -1, total_correct |-> 0, total_wrong |-> 0, total_points |-> 0]

\* The stats a stored user can have.
StatsDomain ==
    [total_quiz : 0..MaxTotalQuiz, total_correct : 0..MaxTotalAnswers,
     total_wrong : 0..MaxTotalAnswers, total_points : 0..MaxTotalPoints]

\* round(a / b) on exact values: to the nearest integer, a tie to the even one.
RoundDiv(a, b) ==
    LET q == a \div b
        r == a % b
    IN  IF 2 * r < b THEN q
        ELSE IF 2 * r > b THEN q + 1
        ELSE IF q % 2 = 0 THEN q ELSE q + 1

\* calculate_user_score without the early return of lines 85-86.
CalculateUserScoreOfAnyone(user_stats) ==
    LET total_questions == user_stats.total_correct + user_stats.total_wrong
    IN  6 * user_stats.total_points
        + (IF total_questions > 0
           THEN RoundDiv(300 * user_stats.total_correct, total_questions) ELSE 0)
        + 5 * user_stats.total_quiz

\* calculate_user_score (lines 62-97), in tenths:
\* 0.6 * total_points + 0.3 * 100 * correct_ratio + 0.1 * total_quiz * 5.
CalculateUserScore(user_stats) ==
    IF user_stats.total_quiz = 0 THEN 0
    ELSE LET total_questions == user_stats.total_correct + user_stats.total_wrong
         IN  6 * user_stats.total_points
             + (IF total_questions > 0
                THEN RoundDiv(300 * user_stats.total_correct, total_questions) ELSE 0)
             + 5 * user_stats.total_quiz

\* users_with_scores of calculate_user_rank and get_top_users (lines 115-123,
\* 156-166): the users of the store db that have stats and a score above 0,
\* in the store's order.
UsersWithScores(db) ==
    LET scored == [i \in DOMAIN db |->
                     [user_id |-> db[i].user_id,
                      score   |-> IF db[i].stats = NoStats THEN 0
                                  ELSE CalculateUserScore(db[i].stats),
                      stats   |-> db[i].stats]]
    IN  SelectSeq(scored, LAMBDA e : e.stats # NoStats /\ e.score > 0)

\* sorted(..., key=score, reverse=True): stable, the elements of equal score
\* keep their order.  Insert puts e behind every element of sorted whose
\* score is not below its own.
RECURSIVE Insert(_, _)
Insert(e, sorted) ==
    IF sorted = << >> THEN <<e>>
    ELSE IF Head(sorted).score >= e.score THEN <<Head(sorted)>> \o Insert(e, Tail(sorted))
    ELSE <<e>> \o sorted

RECURSIVE SortedByScore(_)
SortedByScore(users) ==
    IF users = << >> THEN << >>
    ELSE Insert(users[Len(users)], SortedByScore(SubSeq(users, 1, Len(users) - 1)))

\* calculate_user_rank over the store db (lines 100-138): the 1-based
\* position, 0 for a user who is not in the list.
RankIn(db, user_id) ==
    LET sorted_users == SortedByScore(UsersWithScores(db))
        I == {i \in DOMAIN sorted_users : sorted_users[i].user_id = user_id}
    IN  IF I = {} THEN 0 ELSE CHOOSE i \in I : \A j \in I : i <= j

CalculateUserRank(user_id) == RankIn(all_users, user_id)

\* get_top_users (lines 141-178): sorted_users[:limit].
GetTopUsers(limit) ==
    LET sorted_users == SortedByScore(UsersWithScores(all_users))
    IN  SubSeq(sorted_users, 1, IF Len(sorted_users) < limit THEN Len(sorted_users) ELSE limit)

\* The user documents of the store.
BoardUsers == 1..NumBoardUsers

\* show_personal_stats (lines 216-288), a call its wrapper lets through.
ShowPersonalStats(u) ==
    /\ u \in DOMAIN all_users
    /\ board_shown' =
         IF all_users[u].stats = NoStats THEN [kind |-> "stats_error", user_id |-> u]
         ELSE IF all_users[u].stats.total_quiz = 0 THEN [kind |-> "no_stats", user_id |-> u]
         ELSE [kind |-> "personal_stats", user_id |-> u,
               score |-> CalculateUserScore(all_users[u].stats),
               rank  |-> CalculateUserRank(u)]
    /\ UNCHANGED <<active_quizzes, objects, quiz_settings, tasks, cooldown, joining,
                   accepted, db_counters, escaped, stats_log, all_users, calls>>

\* show_global_leaderboard (lines 291-353), a call its wrapper lets through:
\* the rows are numbered from 1 in the order of get_top_users.
ShowGlobalLeaderboard ==
    /\ board_shown' =
         LET users == GetTopUsers(TOP_LIMIT)
         IN  IF users = << >> THEN [kind |-> "empty_leaderboard"]
             ELSE [kind |-> "global_leaderboard", users |-> users]
    /\ UNCHANGED <<active_quizzes, objects, quiz_settings, tasks, cooldown, joining,
                   accepted, db_counters, escaped, stats_log, all_users, calls>>

\* The callbacks the users of U may send.
Join(U) ==
    \E u \in U, q \in QuizIds, isMember \in BOOLEAN : JoinCall(u, q, isMember)

\* A suspended join_quiz handler resumes.
JoinResumes ==
    \E u \in Everyone, q \in AllQuizIds, dbOk, topicOk \in BOOLEAN :
       JoinWrite(u, q, dbOk, topicOk)

Settings(U) ==
    \/ \E u \in U, q \in QuizIds, topicOk \in BOOLEAN,
          v \in Range(QUIZ_COUNT_OF_QUESTIONS_LIST) \cup {InvalidValue} :
            HandleQuestionCount(u, q, v, topicOk)
    \/ \E u \in U, q \in QuizIds, topicOk \in BOOLEAN,
          v \in Range(QUIZ_TIME_LIMIT_LIST) \cup {InvalidValue} :
            HandleTimeLimit(u, q, v, topicOk)

Start(U) ==
    \E u \in U, q \in QuizIds, k \in -1..PoolSize, store \in StoreOutcomes :
       \E p \in StartPayloads(q) : StartQuiz(u, q, p[1], p[2], k, store)

Answer(U) ==
    \E u \in U, q \in QuizIds, n \in 1..MaxQuestions, o \in Options :
       ProcessAnswer(u, q, n, o)

Next ==
    \/ \E q \in QuizIds : ShowTopic(q)
    \/ \E u \in Users, h \in Handlers : RateLimited(u, h)
    \/ Arrival(MaxCalls) /\ Join(Users)
    \/ JoinResumes
    \/ Arrival(MaxCalls) /\ Settings(Users)
    \/ Arrival(MaxCalls) /\ Start(Users)
    \/ Arrival(MaxCalls) /\ Answer(Users)
    \/ \E t \in DOMAIN tasks : SeqStep(t)
    \/ Tick

Spec == Init /\ [][Next]_vars

(***************************************************************************)
(* The same with the main menu: the users also send the "Start Quiz"       *)
(* message to the bot.                                                     *)
(***************************************************************************)
MenuNext ==
    \/ Next
    \/ Arrival(MaxCalls) /\ \E u \in Users : MenuStartQuiz(u)

MenuSpec == Init /\ [][MenuNext]_vars

(***************************************************************************)
(* The same with a transport that fails: the replies of the settings and   *)
(* answer handlers may raise, in the try block and in the except block.    *)
(***************************************************************************)
FaultNext ==
    \/ Next
    \/ Arrival(MaxCalls) /\
         \E u \in Users, q \in QuizIds, topicOk \in BOOLEAN,
            v \in Range(QUIZ_COUNT_OF_QUESTIONS_LIST) \cup {InvalidValue} :
              HandleQuestionCountEscapes(u, q, v, topicOk)
    \/ Arrival(MaxCalls) /\
         \E u \in Users, q \in QuizIds, topicOk \in BOOLEAN,
            v \in Range(QUIZ_TIME_LIMIT_LIST) \cup {InvalidValue} :
              HandleTimeLimitEscapes(u, q, v, topicOk)
    \/ Arrival(MaxCalls) /\
         \E u \in Users, q \in QuizIds, n \in 1..MaxQuestions, o \in Options :
            ProcessAnswerEscapes(u, q, n, o)

FaultSpec == Init /\ [][FaultNext]_vars

(***************************************************************************)
(* The rounds of a quiz whose settings nobody changed before its Start:    *)
(* the users join; from the first Start on the creators press Start and    *)
(* the time limit buttons and every user answers.                          *)
(***************************************************************************)
Creators == {PayloadCreator(q) : q \in QuizIds}

RoundNext ==
    \/ \E q \in QuizIds : ShowTopic(q)
    \/ \E u \in Users, h \in Handlers : RateLimited(u, h)
    \/ ~Alive /\ Arrival(MaxRoundCalls) /\ Join(Users)
    \/ JoinResumes
    \/ Arrival(MaxRoundCalls) /\ Start(Creators)
    \/ Alive /\ Arrival(MaxRoundCalls) /\ Answer(Users)
    \/ Alive /\ Arrival(MaxRoundCalls) /\
         \E u \in Creators, q \in QuizIds, v \in Range(QUIZ_TIME_LIMIT_LIST) :
            HandleTimeLimit(u, q, v, TRUE)
    \/ \E t \in DOMAIN tasks : SeqStep(t)
    \/ Tick

RoundSpec == Init /\ [][RoundNext]_vars

(***************************************************************************)
(* The rounds a user comes late to: the users join, a creator chooses the  *)
(* settings and presses Start; once the sequencer exists the late users    *)
(* press Join and every user answers.                                      *)
(***************************************************************************)
LateNext ==
    \/ \E q \in QuizIds : ShowTopic(q)
    \/ \E u \in Everyone, h \in Handlers : RateLimited(u, h)
    \/ ~Alive /\ Arrival(MaxLateCalls) /\ Join(Users)
    \/ JoinResumes
    \/ ~Alive /\ Arrival(MaxLateCalls) /\ Settings(Creators)
    \/ ~Alive /\ Arrival(MaxLateCalls) /\ Start(Creators)
    \/ Alive /\ Arrival(MaxLateCalls) /\ Join(LateUsers)
    \/ Alive /\ Arrival(MaxLateCalls) /\ Answer(Everyone)
    \/ \E t \in DOMAIN tasks : SeqStep(t)
    \/ Tick

LateSpec == Init /\ [][LateNext]_vars

(***************************************************************************)
(* Two quizzes of one creator on one topic, with unchanged settings: the   *)
(* users join both, the creator presses the Start of each and every user   *)
(* answers.                                                                *)
(***************************************************************************)
PairNext ==
    \/ \E q \in AllQuizIds : ShowTopic(q)
    \/ \E u \in Users, h \in Handlers : RateLimited(u, h)
    \/ ~Alive /\ Arrival(MaxPairCalls) /\
         \E u \in Users, q \in AllQuizIds, isMember \in BOOLEAN : JoinCall(u, q, isMember)
    \/ JoinResumes
    \/ Arrival(MaxPairCalls) /\
         \E u \in Creators, q \in AllQuizIds, k \in -1..PoolSize, store \in StoreOutcomes :
            \E p \in StartPayloads(q) : StartQuiz(u, q, p[1], p[2], k, store)
    \/ Alive /\ Arrival(MaxPairCalls) /\
         \E u \in Users, q \in AllQuizIds, n \in 1..MaxQuestions, o \in Options :
            ProcessAnswer(u, q, n, o)
    \/ \E t \in DOMAIN tasks : SeqStep(t)
    \/ Tick

PairSpec == Init /\ [][PairNext]_vars

(***************************************************************************)
(* The join button alone: the creator and the other users press it in any  *)
(* order, and the handlers, suspended on their callback.answer, resume in  *)
(* any order.  A press the limiter drops changes nothing.                  *)
(***************************************************************************)
JoinNext ==
    \/ \E q \in QuizIds : ShowTopic(q)
    \/ Arrival(MaxCalls) /\ Join(Everyone)
    \/ JoinResumes
    \/ Tick

JoinSpec == Init /\ [][JoinNext]_vars

(***************************************************************************)
(* Rounds that are started once, by the creator, after the joins and the   *)
(* settings; while the sequencer runs the creator goes on pressing the     *)
(* settings buttons and the participants answer.                           *)
(***************************************************************************)
TuneNext ==
    \/ \E q \in QuizIds : ShowTopic(q)
    \/ \E u \in Users, h \in Handlers : RateLimited(u, h)
    \/ ~Alive /\ Arrival(MaxLateCalls) /\ Join(Users)
    \/ JoinResumes
    \/ ~Alive /\ Arrival(MaxLateCalls) /\ Settings(Creators)
    \/ ~Alive /\ Arrival(MaxLateCalls) /\ Start(Creators)
    \/ Alive /\ Arrival(MaxLateCalls) /\ Settings(Creators)
    \/ Alive /\ Arrival(MaxLateCalls) /\ Answer(Users)
    \/ \E t \in DOMAIN tasks : SeqStep(t)
    \/ Tick

TuneSpec == Init /\ [][TuneNext]_vars

(***************************************************************************)
(* The bot with messages of an earlier run still on the users' screens:    *)
(* the join buttons of the quiz ids of OtherQuizIds can be pressed, and no *)
(* keyboard of this run carries those ids.                                 *)
(***************************************************************************)
StaleNext ==
    \/ Next
    \/ /\ Arrival(MaxCalls)
       /\ \E u \in Users, q \in OtherQuizIds, isMember \in BOOLEAN :
             StaleJoinCall(u, q, isMember)

StaleSpec == Init /\ [][StaleNext]_vars

(***************************************************************************)
(* The leaderboard over a store of NumBoardUsers users with any stats: the *)
(* users ask for their personal stats and for the global leaderboard.      *)
(***************************************************************************)
BoardInit ==
    /\ EngineInit
    /\ all_users \in
         {[i \in BoardUsers |-> [user_id |-> i, stats |-> st[i]]] :
             st \in [BoardUsers -> StatsDomain \cup {NoStats}]}
    /\ board_shown = NoOutput

BoardNext ==
    \/ \E u \in BoardUsers : ShowPersonalStats(u)
    \/ ShowGlobalLeaderboard

BoardSpec == BoardInit /\ [][BoardNext]_vars

(***************************************************************************)
(* The properties of the engine.                                           *)
(***************************************************************************)
\* A sequencer task was created for the room dict o: its round has started.
Started(o) == \E t \in DOMAIN tasks : tasks[t].obj = o

\* The room dict o is a value of active_quizzes.
Registered(o) == \E i \in DOMAIN active_quizzes : active_quizzes[i][2] = o

\* The answer window of the question task t has opened is open: current_question
\* is set (show_question) and the sleep of line 423 has not returned.
WindowOpen(t) == tasks[t].pc \in {"showing", "window"}

\* C1: for every room, question and user, the answer of the user to the
\* question is registered at most once: a further AnswerQuestion of the same
\* user for the same question of the same room is never credited.
AnsweredAtMostOnce == \A a \in accepted : a[4] = 1

\* Task t has closed and scored the window of the question id: it shows the
\* standings or the final results after it, or has gone on to a later question.
ClosedAndScored(t, id) ==
    /\ tasks[t].quiz_id = id[1]
    /\ \/ tasks[t].number > id[2]
       \/ tasks[t].number = id[2] /\ tasks[t].pc \in {"standings", "sleeping", "results"}

\* C2: no answer is registered for a question after the room's sequencer has
\* closed and scored the window of that question (during the intermission
\* before the next question, or while the final results are rendered and the
\* statistics persisted).
NoAnswerAfterWindowClosed ==
    [][\A a \in accepted' \ accepted :
         \A t \in DOMAIN tasks :
            tasks[t].obj = a[1] => ~ClosedAndScored(t, a[2])]_vars

\* C3: when the window of a question closes, every participant who did not
\* answer that question gets total_wrong + 1 and nothing else, and every
\* participant who answered it is left unchanged.
CloseScoresNonAnswerers ==
    [][\A t \in DOMAIN tasks :
         (tasks[t].pc = "window" /\ tasks'[t].pc \in {"standings", "results"}) =>
            LET o  == tasks[t].obj
                id == <<tasks[t].quiz_id, tasks[t].number>>
            IN  \A i \in DOMAIN objects[o].participants :
                   LET before == objects[o].participants[i]
                       after  == objects'[o].participants[i]
                   IN  IF TimesAccepted(o, id, before.user_id) = 0
                       THEN after = [before EXCEPT !.total_wrong = @ + 1]
                       ELSE after = before]_vars

\* C4: an answer registered e whole seconds (0 <= e <= T) into a window of
\* length T either is correct and adds 1 to total_correct and 1 + (T - e) to
\* total_points, or is incorrect and adds 1 to total_wrong and no points.
AnswerPoints ==
    [][\A a \in accepted' \ accepted :
         LET o == a[1]
             i == PIndex(objects[o], a[3])
             before == objects[o].participants[i]
             after  == objects'[o].participants[i]
             e == objects[o].current_question.elapsed
         IN  \A t \in DOMAIN tasks :
                (/\ tasks[t].obj = o
                 /\ WindowOpen(t)
                 /\ <<tasks[t].quiz_id, tasks[t].number>> = a[2]
                 /\ e <= tasks[t].quiz_time_limit)
                =>
                \/ after = [before EXCEPT
                              !.total_correct = @ + 1,
                              !.total_points = @ + 1 + (tasks[t].quiz_time_limit - e)]
                \/ after = [before EXCEPT !.total_wrong = @ + 1]]_vars

\* C5: Start is one-shot: no two sequencer tasks are ever created for the
\* same room.
OneSequencerPerRoom ==
    \A t1, t2 \in DOMAIN tasks : tasks[t1].obj = tasks[t2].obj => t1 = t2

\* C6: the questions of a room open one after the other: a question is opened
\* only when no window of the room is open, its number is the number of the
\* room's previous question plus one, and the intermission is shown only
\* before a further question.
SequentialQuestions ==
    [][\A t \in DOMAIN tasks :
         /\ (tasks[t].pc = "sleeping" /\ tasks'[t].pc = "showing") =>
               /\ tasks'[t].number =
                    objects[tasks[t].obj].current_question.id[2] + 1
               /\ \A s \in DOMAIN tasks : tasks[s].obj = tasks[t].obj => ~WindowOpen(s)
         /\ (tasks[t].pc = "window" /\ tasks'[t].pc = "standings") =>
               tasks[t].number < Len(tasks[t].questions_list)]_vars

\* C7, as the safety property a finite run refutes: a started room that is
\* still in the registry has a sequencer task that has not ended, which
\* will close its windows, render the final standings and remove it.
StartedRoomHasLiveSequencer ==
    \A i \in DOMAIN active_quizzes :
       LET o == active_quizzes[i][2]
       IN  Started(o) =>
              \E t \in DOMAIN tasks :
                 tasks[t].obj = o /\ tasks[t].pc \notin {"done", "failed"}

\* C8: every room in the registry has its creator among its participants.
CreatorIsParticipant ==
    \A i \in DOMAIN active_quizzes :
       LET room == objects[active_quizzes[i][2]]
       IN  room.creator_id \in ParticipantIds(room)

\* A registered room every user has joined, its round run up to the final
\* results.
CreatorIsParticipantWitness ==
    \E i \in DOMAIN active_quizzes, t \in DOMAIN tasks :
       /\ tasks[t].obj = active_quizzes[i][2]
       /\ tasks[t].pc = "results"
       /\ Len(objects[active_quizzes[i][2]].participants) = NumUsers

\* C9: once the round of a room has started, no step changes the room's
\* questions while the room stays in the registry.
QuestionsFixedAfterStart ==
    [][\A o \in DOMAIN objects :
         (/\ Started(o)
          /\ Registered(o)
          /\ \E i \in DOMAIN active_quizzes' : active_quizzes'[i][2] = o)
         => objects'[o].questions = objects[o].questions]_vars

\* C10: once the round of a room has started, handle_question_count and
\* handle_time_limit change neither its question_count nor its time_limit.
SettingsFixedAfterStart ==
    [][Settings(Users) =>
         \A o \in DOMAIN objects :
            Started(o) =>
               /\ objects'[o].question_count = objects[o].question_count
               /\ objects'[o].time_limit = objects[o].time_limit]_vars

\* Every <<question_count, time_limit>> pair a keyboard can carry.
SettingPairs ==
    Range(QUIZ_COUNT_OF_QUESTIONS_LIST) \X Range(QUIZ_TIME_LIMIT_LIST)

\* The Start steps: callback payloads, pool sizes and store outcomes.
StartArgs ==
    {<<u, q, p[1], p[2], k, store>> :
        u \in Users, q \in QuizIds,
        p \in SettingPairs,
        k \in -1..PoolSize, store \in StoreOutcomes}

\* C11: after a successful Start the room's questions hold exactly as many
\* entries as the room's question count, every entry is a question of the
\* topic's pool and no pool question appears twice.
QuestionsDrawnFromPool ==
    [][\A a \in StartArgs :
         (/\ StartQuiz(a[1], a[2], a[3], a[4], a[5], a[6])
          /\ StartOutcome(a[1], a[2], Clamp(a[3], QUIZ_COUNT_OF_QUESTIONS_LIST), a[5]) = "started")
         =>
         LET room == objects'[ObjOf(a[2])]
             qs   == room.questions
         IN  /\ Len(qs) = room.question_count
             /\ \A i \in DOMAIN qs : \E j \in 1..a[5] : qs[i] = PoolQuestion(j)
             /\ \A i, j \in DOMAIN qs : i # j => qs[i] # qs[j]]_vars

\* A started room in the registry that holds two frozen questions.
QuestionsDrawnFromPoolWitness ==
    \E i \in DOMAIN active_quizzes :
       /\ Started(active_quizzes[i][2])
       /\ Len(objects[active_quizzes[i][2]].questions) = 2
       /\ objects[active_quizzes[i][2]].question_count = 2

\* C12: at a successful Start the number of questions frozen into the room is
\* the question_count the room held immediately before that Start, whatever
\* pair the pressed Start button carries.
FrozenCountIsConfiguredCount ==
    [][\A a \in StartArgs :
         (/\ StartQuiz(a[1], a[2], a[3], a[4], a[5], a[6])
          /\ StartOutcome(a[1], a[2], Clamp(a[3], QUIZ_COUNT_OF_QUESTIONS_LIST), a[5]) = "started")
         =>
         Len(objects'[ObjOf(a[2])].questions) = objects[ObjOf(a[2])].question_count]_vars

\* A Start step that leaves the registry, the rooms, the settings map, the
\* sequencer tasks and the store counters as they are.
StartChangesNothing ==
    UNCHANGED <<active_quizzes, objects, quiz_settings, tasks, db_counters>>

\* C13: a Start by a user who is not the room's creator changes neither the
\* room (questions, settings, participants) nor the store counters and
\* starts no sequencer.
StartByNonCreatorRejected ==
    [][\A a \in StartArgs :
         (/\ StartQuiz(a[1], a[2], a[3], a[4], a[5], a[6])
          /\ InRegistry(a[2])
          /\ a[1] # Room(a[2]).creator_id)
         => StartChangesNothing]_vars

\* The start_quiz handler has just run for a user who is not the creator of a
\* room that the creator could start.
StartByNonCreatorRejectedWitness ==
    \E u \in Users, q \in QuizIds :
       /\ InRegistry(q)
       /\ u # Room(q).creator_id
       /\ cooldown[<<u, "start_quiz">>] = LIMIT_SECONDS
       /\ Len(Room(q).participants) >= 2
       /\ Room(q).questions = << >>
       /\ tasks = << >>

\* C14: a Start by the creator on a room with fewer than 2 participants
\* changes nothing: the room stays as it was, not started.
StartWithOnePlayerRejected ==
    [][\A a \in StartArgs :
         (/\ StartQuiz(a[1], a[2], a[3], a[4], a[5], a[6])
          /\ InRegistry(a[2])
          /\ a[1] = Room(a[2]).creator_id
          /\ Len(Room(a[2]).participants) < 2)
         => StartChangesNothing]_vars

\* The start_quiz handler has just run for the creator of a room with one
\* participant, which is not started.
StartWithOnePlayerRejectedWitness ==
    \E q \in QuizIds :
       /\ InRegistry(q)
       /\ cooldown[<<Room(q).creator_id, "start_quiz">>] = LIMIT_SECONDS
       /\ Len(Room(q).participants) = 1
       /\ Room(q).questions = << >>
       /\ tasks = << >>

\* C15: a Start by the creator with a pool of fewer questions than the
\* question count freezes no question, leaves the room in the registry
\* unchanged, increments no store counter and starts no sequencer.
StartWithShortPoolRejected ==
    [][\A a \in StartArgs :
         (/\ StartQuiz(a[1], a[2], a[3], a[4], a[5], a[6])
          /\ InRegistry(a[2])
          /\ a[1] = Room(a[2]).creator_id
          /\ a[5] >= 0
          /\ a[5] < Clamp(a[3], QUIZ_COUNT_OF_QUESTIONS_LIST))
         => StartChangesNothing]_vars

\* The start_quiz handler has just run for the creator of a room with two
\* participants and has frozen nothing.
StartWithShortPoolRejectedWitness ==
    \E q \in QuizIds :
       /\ InRegistry(q)
       /\ cooldown[<<Room(q).creator_id, "start_quiz">>] = LIMIT_SECONDS
       /\ Len(Room(q).participants) >= 2
       /\ Room(q).questions = << >>
       /\ db_counters.quiz_created = 0
       /\ tasks = << >>

\* The presses of the question count and time limit buttons: the user, the
\* quiz id, the value of the button and whether the topic is found.
SettingArgs ==
    {<<u, q, v, topicOk>> :
        u \in Users, q \in QuizIds,
        v \in Range(QUIZ_COUNT_OF_QUESTIONS_LIST) \cup Range(QUIZ_TIME_LIMIT_LIST)
               \cup {InvalidValue},
        topicOk \in BOOLEAN}

\* A press of a settings button by the arguments a.
SettingPressed(a) ==
    \/ HandleQuestionCount(a[1], a[2], a[3], a[4])
    \/ HandleTimeLimit(a[1], a[2], a[3], a[4])

\* C16: a ChangeQuestionCount or ChangeTimeLimit by a user who is not the
\* creator leaves the room's settings and the quiz_settings entry unchanged.
SettingByNonCreatorRejected ==
    [][\A a \in SettingArgs :
         (SettingPressed(a) /\ a[1] # PayloadCreator(a[2]))
         => UNCHANGED <<objects, quiz_settings>>]_vars

\* A settings handler has just run for a user who is not the creator of a
\* registered room.
SettingByNonCreatorRejectedWitness ==
    \E u \in Users, q \in QuizIds :
       /\ InRegistry(q)
       /\ u # Room(q).creator_id
       /\ \/ cooldown[<<u, "handle_question_count">>] = LIMIT_SECONDS
          \/ cooldown[<<u, "handle_time_limit">>] = LIMIT_SECONDS

\* C17: a ChangeQuestionCount or ChangeTimeLimit by the creator with a value
\* outside the allowed list leaves the room's settings and the quiz_settings
\* entry unchanged.
SettingInvalidValueRejected ==
    [][\A a \in SettingArgs :
         /\ (/\ HandleQuestionCount(a[1], a[2], a[3], a[4])
             /\ a[1] = PayloadCreator(a[2])
             /\ a[3] \notin Range(QUIZ_COUNT_OF_QUESTIONS_LIST))
            => UNCHANGED <<objects, quiz_settings>>
         /\ (/\ HandleTimeLimit(a[1], a[2], a[3], a[4])
             /\ a[1] = PayloadCreator(a[2])
             /\ a[3] \notin Range(QUIZ_TIME_LIMIT_LIST))
            => UNCHANGED <<objects, quiz_settings>>]_vars

\* A settings handler has just run for the creator of a registered room whose
\* settings are the initial ones.
SettingInvalidValueRejectedWitness ==
    \E q \in QuizIds :
       /\ InRegistry(q)
       /\ \/ cooldown[<<Room(q).creator_id, "handle_question_count">>] = LIMIT_SECONDS
          \/ cooldown[<<Room(q).creator_id, "handle_time_limit">>] = LIMIT_SECONDS
       /\ quiz_settings[q].question_count = QUIZ_COUNT_OF_QUESTIONS_LIST[1]
       /\ quiz_settings[q].time_limit = QUIZ_TIME_LIMIT_LIST[1]
       /\ Room(q).question_count = QUIZ_COUNT_OF_QUESTIONS_LIST[1]
       /\ Room(q).time_limit = QUIZ_TIME_LIMIT_LIST[1]

\* The presses of the join button and the ways the handler can continue.
JoinArgs ==
    {<<u, q, isMember, dbOk, topicOk>> :
        u \in Users, q \in QuizIds, isMember \in BOOLEAN,
        dbOk \in BOOLEAN, topicOk \in BOOLEAN}

\* A step of join_quiz for the arguments a: either of its two segments.
JoinStep(a) ==
    \/ JoinCall(a[1], a[2], a[3])
    \/ JoinWrite(a[1], a[2], a[4], a[5])

\* C18: a step of Join by a user who is already a participant of the room
\* leaves the participants (their keys and their scores) and the registry
\* unchanged, before and during a round.
JoinIsIdempotent ==
    [][\A a \in JoinArgs :
         (/\ JoinStep(a)
          /\ InRegistry(a[2])
          /\ a[1] \in ParticipantIds(Room(a[2])))
         => UNCHANGED <<objects, active_quizzes>>]_vars

\* join_quiz has just run, during a round, for a participant who has been
\* scored.
JoinIsIdempotentWitness ==
    \E u \in Users, q \in QuizIds :
       /\ InRegistry(q)
       /\ Started(ObjOf(q))
       /\ u \in ParticipantIds(Room(q))
       /\ cooldown[<<u, "join_quiz">>] = LIMIT_SECONDS
       /\ LET p == Room(q).participants[PIndex(Room(q), u)]
          IN  p.total_correct + p.total_wrong > 0

LateJoinerScoredForEveryQuestion ==
    \A t \in DOMAIN tasks :
       tasks[t].pc = "results" =>
          LET room == objects[tasks[t].obj]
          IN  \A i \in DOMAIN room.participants :
                 room.participants[i].user_id \in LateUsers =>
                    room.participants[i].total_correct + room.participants[i].total_wrong
                       = Len(tasks[t].questions_list)

\* The last question of a round is closed and a participant who joined after
\* the Start is scored for fewer questions than the round had.
LateJoinerMissedQuestion ==
    \E t \in DOMAIN tasks :
       /\ tasks[t].pc = "results"
       /\ \E i \in DOMAIN objects[tasks[t].obj].participants :
             LET p == objects[tasks[t].obj].participants[i]
             IN  /\ p.user_id \in LateUsers
                 /\ p.total_correct + p.total_wrong < Len(tasks[t].questions_list)

\* C21: while a room dict stays in the registry its participants key set
\* never shrinks: every step keeps the keys the dict held before it.
ParticipantsNeverShrink ==
    [][\A i \in DOMAIN active_quizzes :
         LET o == active_quizzes[i][2]
         IN  (\E j \in DOMAIN active_quizzes' : active_quizzes'[j][2] = o)
             => ParticipantIds(objects[o]) \subseteq ParticipantIds(objects'[o])]_vars

\* A registered room that every user has joined has been through a round up
\* to the close of its last question.
ParticipantsNeverShrinkWitness ==
    \E i \in DOMAIN active_quizzes :
       LET o == active_quizzes[i][2]
       IN  /\ ParticipantIds(objects[o]) = Users
           /\ \E t \in DOMAIN tasks : tasks[t].obj = o /\ tasks[t].pc = "results"

\* A handler runs for a callback that carries the quiz id q.
OperationOn(q) ==
    \/ \E u \in Everyone, isMember \in BOOLEAN : JoinCall(u, q, isMember)
    \/ \E u \in Everyone, dbOk, topicOk \in BOOLEAN : JoinWrite(u, q, dbOk, topicOk)
    \/ \E a \in SettingArgs : HandleQuestionCount(a[1], q, a[3], a[4])
    \/ \E a \in SettingArgs : HandleTimeLimit(a[1], q, a[3], a[4])
    \/ \E a \in StartArgs : StartQuiz(a[1], q, a[3], a[4], a[5], a[6])
    \/ \E u \in Everyone, n \in 1..MaxQuestions, o \in Options : ProcessAnswer(u, q, n, o)

\* The step leaves every registered room dict other than o registered under
\* its id and as it is.
OtherRoomsUntouched(o) ==
    \A i \in DOMAIN active_quizzes :
       active_quizzes[i][2] # o =>
          /\ \E j \in DOMAIN active_quizzes' : active_quizzes'[j] = active_quizzes[i]
          /\ objects'[active_quizzes[i][2]] = objects[active_quizzes[i][2]]

\* C22: an operation addressed to a room (a handler called with its id, a
\* step of its sequencer, its final deletion) leaves every other room's
\* state and its presence in the registry unchanged.
RoomsAreIndependent ==
    [][/\ \A q \in AllQuizIds :
            OperationOn(q) => OtherRoomsUntouched(IF InRegistry(q) THEN ObjOf(q) ELSE 0)
       /\ \A t \in DOMAIN tasks :
            SeqStep(t) => OtherRoomsUntouched(tasks[t].obj)]_vars

\* The sequencer of one room has ended and taken another room's entry out of
\* the registry: its own room dict is still registered, the other one is gone.
SequencerDeletedOtherRoom ==
    \E t \in DOMAIN tasks :
       /\ tasks[t].pc = "done"
       /\ Registered(tasks[t].obj)
       /\ Len(active_quizzes) = 1
       /\ Len(objects) = 2

\* The step is the end of a sequencer of room dict o that has closed and
\* scored its last question, shown the final standings and handed every
\* participant's counters to the store.
FinalizedBy(t, o) ==
    /\ tasks[t].obj = o
    /\ tasks[t].pc = "results"
    /\ tasks[t].number = Len(tasks[t].questions_list)
    /\ tasks'[t].pc = "done"

\* C23: a started room leaves the registry only in the step in which its
\* sequencer, after the close of the last question and the final standings,
\* has submitted the participants' stats; it is never removed earlier.
RemovedOnlyWhenFinalized ==
    [][\A i \in DOMAIN active_quizzes :
         (/\ Started(active_quizzes[i][2])
          /\ \A j \in DOMAIN active_quizzes' : active_quizzes'[j] # active_quizzes[i])
         => \E t \in DOMAIN tasks : FinalizedBy(t, active_quizzes[i][2])]_vars

\* The wrapper of handler h runs the handler for user u.
Invoked(u, h) ==
    IF h = MenuHandler THEN MenuStartQuiz(u)
    ELSE IF h = "join_quiz"
    THEN \E q \in AllQuizIds, isMember \in BOOLEAN : JoinCall(u, q, isMember)
    ELSE IF h = "handle_question_count"
    THEN \E a \in SettingArgs : HandleQuestionCount(u, a[2], a[3], a[4])
    ELSE IF h = "handle_time_limit"
    THEN \E a \in SettingArgs : HandleTimeLimit(u, a[2], a[3], a[4])
    ELSE IF h = "start_quiz"
    THEN \E a \in StartArgs : StartQuiz(u, a[2], a[3], a[4], a[5], a[6])
    ELSE \E q \in AllQuizIds, n \in 1..MaxQuestions, o \in Options : ProcessAnswer(u, q, n, o)

\* A call of user u to handler h would be dropped now.
WouldDrop(u, h) == Limited(u, FuncName(h))

\* C24: the cooldowns are separate per (user, handler): a call that runs a
\* handler for a user starts a cooldown for that user and that handler and
\* makes no call of another user, or to another handler, be dropped.
CooldownsAreSeparate ==
    [][\A u \in Users, h \in Decorated :
         Invoked(u, h) =>
            /\ WouldDrop(u, h)'
            /\ \A u2 \in Users, h2 \in Decorated :
                  (<<u2, h2>> # <<u, h>> /\ ~WouldDrop(u2, h2)) => ~WouldDrop(u2, h2)']_vars

\* C25: no failure leaves a handler: every run of the join, settings, start
\* and answer handlers and of the sequencer ends with its exception caught.
NoFailureEscapes == escaped = {}

\* The store without the document of user u.
StoreWithout(u) == SelectSeq(all_users, LAMBDA e : e.user_id # u)

\* C26: a stored user with total_quiz = 0 has score 0, is in no row of the
\* top users, has rank 0 (shown as unranked) and shifts nobody's rank: every
\* other user has the rank it has in the store without that user.
ZeroQuizUserIsUnranked ==
    \A u \in DOMAIN all_users :
       (all_users[u].stats # NoStats /\ all_users[u].stats.total_quiz = 0) =>
          /\ CalculateUserScore(all_users[u].stats) = 0
          /\ \A i \in DOMAIN GetTopUsers(TOP_LIMIT) : GetTopUsers(TOP_LIMIT)[i].user_id # u
          /\ CalculateUserRank(u) = 0
          /\ \A v \in DOMAIN all_users :
                v # u => CalculateUserRank(v) = RankIn(StoreWithout(u), v)
          /\ board_shown.kind = "personal_stats" => board_shown.user_id # u
          /\ board_shown.kind = "global_leaderboard" =>
                \A i \in DOMAIN board_shown.users : board_shown.users[i].user_id # u

\* The global leaderboard has been shown for a store in which the first user
\* has points and answers but total_quiz = 0, and the users behind it are
\* ranked.
ZeroQuizUserIsUnrankedWitness ==
    /\ board_shown.kind = "global_leaderboard"
    /\ Len(board_shown.users) = NumBoardUsers - 1
    /\ all_users[1].stats # NoStats
    /\ all_users[1].stats.total_quiz = 0
    /\ all_users[1].stats.total_points > 0
    /\ all_users[1].stats.total_correct > 0

\* The lines are in non-increasing order of total_points, and of two lines
\* with the same total_points the one of the earlier key of the participants
\* dict comes first.
OrderedStandings(lines, participants) ==
    \A i, j \in DOMAIN lines :
       i < j =>
          \/ lines[i].total_points > lines[j].total_points
          \/ /\ lines[i].total_points = lines[j].total_points
             /\ \E a, b \in DOMAIN participants :
                   /\ a < b
                   /\ participants[a].user_id = lines[i].user_id
                   /\ participants[b].user_id = lines[j].user_id

\* C27: the standings a sequencer renders, the top players of the
\* intermission (whatever the cut) and the final leaderboard, list the
\* participants in non-increasing order of total_points, ties in the order
\* of joining; the final leaderboard has a line for every participant.
StandingsAreOrdered ==
    \A t \in DOMAIN tasks :
       LET participants == objects[tasks[t].obj].participants
       IN  /\ tasks[t].pc = "standings" =>
                \A n \in {1, 2, MAX_PLAYERS} :
                   LET top == FormatTopPlayers(participants, n)
                   IN  /\ OrderedStandings(top.lines, participants)
                       /\ Len(top.lines) = IF n < Len(participants) THEN n
                                           ELSE Len(participants)
                       /\ \A i \in DOMAIN top.lines :
                             top.lines[i].total_points =
                                FormatLeaderboard(participants)[i].total_points
           /\ tasks[t].pc = "results" =>
                /\ OrderedStandings(FormatLeaderboard(participants), participants)
                /\ Len(FormatLeaderboard(participants)) = Len(participants)
                /\ \A i \in DOMAIN participants :
                      \E k \in DOMAIN participants :
                         /\ FormatLeaderboard(participants)[k].user_id =
                               participants[i].user_id
                         /\ FormatLeaderboard(participants)[k].total_points =
                               participants[i].total_points

\* A sequencer is about to render the final leaderboard of a room in which
\* the first two participants tie and the third, who joined last, has more
\* points than both.
StandingsAreOrderedWitness ==
    \E t \in DOMAIN tasks :
       LET participants == objects[tasks[t].obj].participants
       IN  /\ tasks[t].pc = "results"
           /\ Len(participants) = 3
           /\ participants[1].total_points = participants[2].total_points
           /\ participants[3].total_points > participants[1].total_points
           /\ FormatLeaderboard(participants)[1].user_id = participants[3].user_id

\* C28: a Join that creates a room (the quiz id is not in the registry, the
\* topic is found) registers a room whose participants are the creator
\* alone when the joiner is the creator, the creator and then the joiner
\* otherwise, with all counters zero, no question, and the question count
\* and time limit of the quiz_settings entry when there is one, the
\* defaults otherwise; the other registry entries stay.
JoinCreatesRoom ==
    [][\A u \in Users, q \in AllQuizIds :
         (/\ JoinWrite(u, q, TRUE, TRUE)
          /\ ~InRegistry(q))
         => /\ InRegistry(q)'
            /\ Room(q)'.creator_id = PayloadCreator(q)
            /\ Room(q)'.participants =
                  IF u = PayloadCreator(q) THEN <<NewParticipant(u)>>
                  ELSE <<NewParticipant(PayloadCreator(q)), NewParticipant(u)>>
            /\ Room(q)'.questions = << >>
            /\ Room(q)'.current_question = NoQuestion
            /\ Room(q)'.question_count =
                  IF Issued(q) THEN quiz_settings[q].question_count
                  ELSE QUIZ_COUNT_OF_QUESTIONS_LIST[1]
            /\ Room(q)'.time_limit =
                  IF Issued(q) THEN quiz_settings[q].time_limit
                  ELSE QUIZ_TIME_LIMIT_LIST[1]
            /\ active_quizzes' = Append(active_quizzes, <<q, ObjOf(q)'>>)]_vars

\* Two rooms that joins created: one for a stale button, with the default
\* settings, and one holding the creator and the joiner with the settings
\* the creator had chosen before anybody joined.
JoinCreatesRoomWitness ==
    \E q \in QuizIds, o \in OtherQuizIds, u \in Users :
       /\ InRegistry(q)
       /\ InRegistry(o)
       /\ ~Issued(o)
       /\ Room(o).question_count = QUIZ_COUNT_OF_QUESTIONS_LIST[1]
       /\ Room(o).time_limit = QUIZ_TIME_LIMIT_LIST[1]
       /\ u # PayloadCreator(q)
       /\ Room(q).participants = <<NewParticipant(PayloadCreator(q)), NewParticipant(u)>>
       /\ Room(q).question_count = QUIZ_COUNT_OF_QUESTIONS_LIST[2]
       /\ Room(q).time_limit = QUIZ_TIME_LIMIT_LIST[2]
       /\ cooldown[<<u, "join_quiz">>] = LIMIT_SECONDS
       /\ joining = {}
       /\ tasks = << >>

\* The rejection a reply of process_answer stands for.
Rejection(message) ==
    CASE message = "quiz_not_found_alert" -> "RoomNotFound"
      [] message \in {"quiz_not_active", "question_not_active"} -> "QuestionNotActive"
      [] message = "not_a_participant" -> "NotAParticipant"
      [] message = "already_answered" -> "AlreadyAnswered"
      [] OTHER -> "None"

\* The first rejection that applies to an answer of user u to question n of
\* quiz q, in the order RoomNotFound, QuestionNotActive, NotAParticipant,
\* AlreadyAnswered.
FirstRejection(u, q, n) ==
    IF \A i \in DOMAIN active_quizzes : active_quizzes[i][1] # q THEN "RoomNotFound"
    ELSE LET room == objects[ObjOf(q)]
         IN  IF room.current_question = NoQuestion \/ room.current_question.id # <<q, n>>
             THEN "QuestionNotActive"
             ELSE IF \A i \in DOMAIN room.participants : room.participants[i].user_id # u
             THEN "NotAParticipant"
             ELSE IF \E i \in DOMAIN room.current_question.answered_users :
                        room.current_question.answered_users[i] = u
             THEN "AlreadyAnswered"
             ELSE "None"

\* C29: process_answer rejects an answer with the first of RoomNotFound,
\* QuestionNotActive, NotAParticipant, AlreadyAnswered that applies, and a
\* rejected answer leaves every room (participants, counters, answered
\* users) and the registry unchanged.
AnswerRejectedInOrder ==
    [][\A u \in Everyone, q \in QuizIds, n \in 1..MaxQuestions, o \in Options :
         ProcessAnswer(u, q, n, o) =>
            /\ Rejection(AnswerOutcome(u, q, n)) = FirstRejection(u, q, n)
            /\ FirstRejection(u, q, n) # "None" =>
                  UNCHANGED <<objects, active_quizzes, accepted>>]_vars

\* A user who is no participant has just answered while a question of the
\* room was open that a participant had answered: the answers to the open
\* question and to the other one were both rejected.
AnswerRejectedInOrderWitness ==
    \E u \in Everyone, q \in QuizIds :
       /\ InRegistry(q)
       /\ u \notin ParticipantIds(Room(q))
       /\ Room(q).current_question # NoQuestion
       /\ Room(q).current_question.answered_users # << >>
       /\ cooldown[<<u, "process_answer">>] = LIMIT_SECONDS
       /\ \A i \in DOMAIN Room(q).participants :
             Room(q).participants[i].total_correct + Room(q).participants[i].total_wrong
                = IF Room(q).participants[i].user_id
                       \in Range(Room(q).current_question.answered_users)
                  THEN 1 ELSE 0

\* The replies of start_quiz that reject a Start: creator_only (Forbidden),
\* quiz_not_found (RoomNotFound), need_players (InsufficientPlayers),
\* error_general (the question fetch failed) and not_enough_questions
\* (InsufficientQuestions).
StartRejections ==
    {"creator_only", "quiz_not_found", "need_players", "error_general",
     "not_enough_questions"}

\* C30: a Start that hands the room to a sequencer adds exactly one to the
\* quiz-created counter and exactly one to the topic-played counter; a Start
\* that is rejected (not the creator, no room, fewer than two participants,
\* failed question fetch, too few questions) changes neither; no Start adds
\* more than one to a counter, and no other step changes them.
CountersFollowStart ==
    [][/\ \A a \in StartArgs :
            StartQuiz(a[1], a[2], a[3], a[4], a[5], a[6]) =>
               /\ Len(tasks') = Len(tasks) + 1 =>
                     /\ db_counters'.quiz_created = db_counters.quiz_created + 1
                     /\ db_counters'.topic_played = db_counters.topic_played + 1
               /\ StartOutcome(a[1], a[2], Clamp(a[3], QUIZ_COUNT_OF_QUESTIONS_LIST), a[5])
                     \in StartRejections => UNCHANGED db_counters
               /\ db_counters'.quiz_created \in
                     {db_counters.quiz_created, db_counters.quiz_created + 1}
               /\ db_counters'.topic_played \in
                     {db_counters.topic_played, db_counters.topic_played + 1}
       /\ (\A a \in StartArgs : ~StartQuiz(a[1], a[2], a[3], a[4], a[5], a[6]))
             => UNCHANGED db_counters]_vars

\* Two Starts have each handed the room to a sequencer, and each counter
\* stands at two.
CountersFollowStartWitness ==
    /\ Len(tasks) = 2
    /\ db_counters = [quiz_created |-> 2, topic_played |-> 2]

\* The calls of db.update_user_stats a step makes.
NewUpdates == SubSeq(stats_log', Len(stats_log) + 1, Len(stats_log'))

SequencerHoldsOwnId ==
    \A i \in DOMAIN active_quizzes :
       LET quiz_id == active_quizzes[i][1]
           o == active_quizzes[i][2]
       IN  /\ \A t \in DOMAIN tasks :
                (tasks[t].obj = o /\ tasks[t].quiz_id # 0) => tasks[t].quiz_id = quiz_id
           /\ objects[o].current_question # NoQuestion =>
                objects[o].current_question.id[1] = quiz_id

\* A registered room shows a question whose id carries the quiz id of
\* another registered room: the answer buttons on screen address that room.
QuestionCarriesOtherRoomsId ==
    \E i, j \in DOMAIN active_quizzes :
       /\ i # j
       /\ objects[active_quizzes[i][2]].current_question # NoQuestion
       /\ objects[active_quizzes[i][2]].current_question.id[1] = active_quizzes[j][1]

\* C33: when a sequencer finishes a round of N questions, every participant
\* who was in the room when the round started has total_correct +
\* total_wrong = N: each question has counted once for them.
EveryQuestionCountsOnce ==
    [][\A t \in DOMAIN tasks :
         SeqFinish(t, FALSE, TRUE) =>
            \A i \in DOMAIN objects[tasks[t].obj].participants :
               LET p == objects[tasks[t].obj].participants[i]
               IN  p.user_id \in Users =>
                      p.total_correct + p.total_wrong = Len(tasks[t].questions_list)]_vars

\* The final results of a round are on screen and a participant who was in
\* the room from the Start has been scored more often than the round had
\* questions.
QuestionCountedTwice ==
    \E t \in DOMAIN tasks :
       /\ tasks[t].pc = "results"
       /\ \E i \in DOMAIN objects[tasks[t].obj].participants :
             LET p == objects[tasks[t].obj].participants[i]
             IN  /\ p.user_id \in Users
                 /\ p.total_correct + p.total_wrong > Len(tasks[t].questions_list)

\* C34: the counters a finishing sequencer hands to db.update_user_stats
\* are, participant by participant, the ones of the final leaderboard it
\* rendered for the round.
PersistedStatsAreRenderedStats ==
    [][\A t \in DOMAIN tasks :
         SeqFinish(t, FALSE, TRUE) =>
            \A i \in DOMAIN NewUpdates :
               \E k \in DOMAIN tasks[t].rendered :
                  /\ tasks[t].rendered[k].user_id = NewUpdates[i].user_id
                  /\ tasks[t].rendered[k].total_correct = NewUpdates[i].correct_count
                  /\ tasks[t].rendered[k].total_wrong = NewUpdates[i].wrong_count
                  /\ tasks[t].rendered[k].total_points = NewUpdates[i].points]_vars

\* The final leaderboard of a round is on screen and a participant it lists
\* has since been credited a correct answer: the room holds more points for
\* that participant than the leaderboard shows.
RoomChangedAfterFinalStandings ==
    \E t \in DOMAIN tasks :
       /\ tasks[t].pc = "results"
       /\ \E k \in DOMAIN tasks[t].rendered, i \in DOMAIN objects[tasks[t].obj].participants :
             /\ objects[tasks[t].obj].participants[i].user_id = tasks[t].rendered[k].user_id
             /\ objects[tasks[t].obj].participants[i].total_points
                   > tasks[t].rendered[k].total_points

\* C35: an answer that is registered adds at most 1 + T points, T being the
\* time limit the sequencer of the room captured when it started and sleeps
\* for each question.
PointsBoundedByWindow ==
    [][\A a \in accepted' \ accepted :
         LET o == a[1]
             i == PIndex(objects[o], a[3])
         IN  \A t \in DOMAIN tasks :
                (tasks[t].obj = o /\ tasks[t].quiz_id # 0) =>
                   objects'[o].participants[i].total_points
                      <= objects[o].participants[i].total_points
                           + 1 + tasks[t].quiz_time_limit]_vars

\* A participant of a round whose sequencer waits 1 second per question
\* holds more than 1 + 1 points after a single answer.
AnswerPaidMoreThanWindow ==
    \E t \in DOMAIN tasks :
       /\ tasks[t].quiz_id # 0
       /\ tasks[t].quiz_time_limit = 1
       /\ \E i \in DOMAIN objects[tasks[t].obj].participants :
             LET p == objects[tasks[t].obj].participants[i]
             IN  /\ p.total_correct = 1
                 /\ p.total_points > 1 + tasks[t].quiz_time_limit

\* C36: db.update_user_stats is called at most once for each room dict and
\* participant.
StatsSubmittedAtMostOnce ==
    \A i, j \in DOMAIN stats_log :
       (stats_log[i].obj = stats_log[j].obj /\ stats_log[i].user_id = stats_log[j].user_id)
          => i = j

\* Two sequencers of one room dict have both run to their end, and the
\* counters of one participant have been handed to the store twice, both
\* calls answered with success.
StatsSubmittedTwice ==
    /\ Len(tasks) = 2
    /\ \A t \in DOMAIN tasks : tasks[t].pc = "done"
    /\ \E i, j \in DOMAIN stats_log :
       /\ i < j
       /\ stats_log[i].obj = stats_log[j].obj
       /\ stats_log[i].user_id = stats_log[j].user_id
       /\ stats_log[i].status = "success"
       /\ stats_log[j].status = "success"
       /\ stats_log[i].correct_count + stats_log[i].wrong_count > 0

\* C37: whatever the order in which the join handlers of distinct users
\* press and resume on one quiz id, a handler that resumes (the store and
\* the topic answering) leaves its user in the participants of the room
\* registered under the id; when the room exists it keeps the registry, the
\* room dict and every other user's entry as they are; when it does not,
\* one room dict is built; and the registry holds one entry for the id.
ConcurrentJoinsAllLand ==
    [][\A u \in Everyone, q \in QuizIds :
         JoinWrite(u, q, TRUE, TRUE) =>
            /\ InRegistry(q)'
            /\ u \in ParticipantIds(Room(q))'
            /\ InRegistry(q) =>
                  /\ active_quizzes' = active_quizzes
                  /\ Len(objects') = Len(objects)
                  /\ \A i \in DOMAIN Room(q).participants :
                        Room(q).participants[i].user_id # u =>
                           /\ i \in DOMAIN Room(q)'.participants
                           /\ Room(q)'.participants[i] = Room(q).participants[i]
            /\ Cardinality({i \in DOMAIN active_quizzes' : active_quizzes'[i][1] = q}) = 1
            /\ ~InRegistry(q) => Len(objects') = Len(objects) + 1]_vars

\* Three join handlers were suspended on a quiz id without a room; a user
\* who is not the creator resumed first and created the room, and the
\* handlers of the creator and of the third user are still suspended.
ConcurrentJoinsAllLandWitness ==
    \E q \in QuizIds, a, b \in Everyone :
       /\ a # b
       /\ a # PayloadCreator(q)
       /\ b # PayloadCreator(q)
       /\ InRegistry(q)
       /\ Room(q).participants = <<NewParticipant(PayloadCreator(q)), NewParticipant(b)>>
       /\ joining = {<<PayloadCreator(q), q>>, <<a, q>>}

\* C38: a join_quiz handler that has shown the join_success alert (it is in
\* joining, suspended on the callback.answer of line 252) completes with its
\* user among the participants of the room registered under the quiz id,
\* whatever the store and the topic lookup answer.
SuccessAlertMeansParticipant ==
    [][\A u \in Everyone, q \in QuizIds, dbOk, topicOk \in BOOLEAN :
         JoinWrite(u, q, dbOk, topicOk) =>
            /\ InRegistry(q)'
            /\ u \in ParticipantIds(Room(q))']_vars

\* C39: a handle_question_count that selects a value and finishes leaves the
\* time_limit of the room registered under its quiz id as it was, and a
\* handle_time_limit that selects a value and finishes leaves the room's
\* question_count as it was.
SettingChangeKeepsOtherSetting ==
    [][\A u \in Users, q \in QuizIds :
         /\ \A v \in Range(QUIZ_COUNT_OF_QUESTIONS_LIST) :
               (InRegistry(q) /\ HandleQuestionCount(u, q, v, TRUE)
                  /\ SettingOutcome(u, q, v, QUIZ_COUNT_OF_QUESTIONS_LIST) = "selected")
               => Room(q)'.time_limit = Room(q).time_limit
         /\ \A v \in Range(QUIZ_TIME_LIMIT_LIST) :
               (InRegistry(q) /\ HandleTimeLimit(u, q, v, TRUE)
                  /\ SettingOutcome(u, q, v, QUIZ_TIME_LIMIT_LIST) = "selected")
               => Room(q)'.question_count = Room(q).question_count]_vars

\* The creator pressed Start less than two seconds ago and a question count
\* button since the sequencer read the room's time limit, and no time limit
\* button in the last two seconds: the time_limit of the running room is no
\* longer the one Start wrote and the sequencer read.
OtherSettingChangedByCountButton ==
    \E q \in QuizIds, t \in DOMAIN tasks :
       /\ InRegistry(q)
       /\ tasks[t].obj = ObjOf(q)
       /\ tasks[t].pc \in {"announcing", "sleeping"}
       /\ tasks[t].quiz_time_limit # Room(q).time_limit
       /\ cooldown[<<PayloadCreator(q), "start_quiz">>] > 0
       /\ cooldown[<<PayloadCreator(q), "handle_question_count">>] > 0
       /\ cooldown[<<PayloadCreator(q), "handle_time_limit">>] = 0

\* C40: once a sequencer has run to its end and cleanup_quiz_data has
\* removed the room from active_quizzes, no step registers a room under the
\* quiz id again (with the single quiz id of QuizIds, a task that is done
\* is a task of that id).
FinishedIsTerminal ==
    [][\A q \in QuizIds :
         ((\E t \in DOMAIN tasks : tasks[t].pc = "done") /\ ~InRegistry(q))
            => ~InRegistry(q)']_vars

\* A sequencer of the quiz id has run to its end, which removed the room,
\* and a room that has not been started is registered under the id: a
\* join_quiz handler that resumed afterwards has built it.
RoomAppearsAfterFinish ==
    \E q \in QuizIds :
       /\ \E t \in DOMAIN tasks : tasks[t].pc = "done"
       /\ InRegistry(q)
       /\ Room(q).questions = << >>
       /\ joining = {}
====
